---------------------------- MODULE Spec2Model ----------------------------
(***************************************************************************)
(* A model of dfss/process.py: calculate_d2, calculate_process and         *)
(* calculate_p_value.                                                      *)
(*                                                                         *)
(* Numbers.  Real values are exact rationals <<num, den>>; a float is an   *)
(* extended value [k, v] with k one of "fin", "nan", "pinf", "ninf", so    *)
(* that division by zero, empty reductions and NaN propagation behave as   *)
(* they do for float64.  Rounding of the last bits of a float64 is not     *)
(* modelled: equalities are equalities of the exact values.  A square      *)
(* root (the standard deviation) is kept as a surd [k, sg, sq], the number *)
(* sg * sqrt(sq), which is closed under the products and quotients the     *)
(* code applies to it.                                                     *)
(*                                                                         *)
(* The normal CDF is library code (scipy.stats.norm).  It is modelled by   *)
(* the table of the values it returns at the points a call evaluates:      *)
(* any table in [0, 1] that is non-decreasing and passes through 1/2 at 0. *)
(* calculate_process reads the table only through d2(window); its tables   *)
(* are the symmetric ones, cdf(-x) = 1 - cdf(x).                           *)
(***************************************************************************)
EXTENDS Integers, Sequences, FiniteSets

(* ------------------------------ bounds -------------------------------- *)
\* Number of grid points of the integration (the code uses 1001).
NumGrid == 4
\* The CDF table holds multiples of 1/(2*CdfScale).
CdfScale == 1
\* calculate_d2 is called with n in -NegN .. MaxN.
MaxN == 5
NegN == 1
\* Sample series have at most MaxLen entries.
MaxLen == 3

(* ------------------------- program constants -------------------------- *)
GridStart == -20
GridStop == 20

(* ---------------------------- rationals ------------------------------- *)
Abs(i) == IF i < 0 THEN -i ELSE i

Sign(i) == IF i < 0 THEN -1 ELSE IF i = 0 THEN 0 ELSE 1

RECURSIVE Gcd(_, _)
Gcd(a, b) == IF b = 0 THEN a ELSE Gcd(b, a % b)

\* The rational num/den in lowest terms with a positive denominator.
Q(num, den) ==
    LET g == Gcd(Abs(num), Abs(den))
        s == IF den < 0 THEN -1 ELSE 1
    IN  <<s * (num \div g), s * (den \div g)>>

QInt(i) == <<i, 1>>

QAdd(a, b) == Q(a[1] * b[2] + b[1] * a[2], a[2] * b[2])

QNeg(a) == <<-a[1], a[2]>>

QMul(a, b) == Q(a[1] * b[1], a[2] * b[2])

\* b is not zero.
QDiv(a, b) == Q(a[1] * b[2], a[2] * b[1])

QLt(a, b) == a[1] * b[2] < b[1] * a[2]

QLe(a, b) == a[1] * b[2] <= b[1] * a[2]

(* ------------------------- float64 values ----------------------------- *)
Fin(q) == [k |-> "fin", v |-> q]

NaN == [k |-> "nan", v |-> <<0, 1>>]

PInf == [k |-> "pinf", v |-> <<0, 1>>]

NInf == [k |-> "ninf", v |-> <<0, 1>>]

XInt(i) == Fin(QInt(i))

IsFin(x) == x.k = "fin"

IsNaN(x) == x.k = "nan"

\* -1, 0 or 1 for a value that is not NaN.
XSign(x) == IF x.k = "pinf" THEN 1 ELSE IF x.k = "ninf" THEN -1 ELSE Sign(x.v[1])

XOfSign(s) == IF s > 0 THEN PInf ELSE NInf

XNeg(x) ==
    CASE x.k = "fin" -> Fin(QNeg(x.v))
      [] x.k = "pinf" -> NInf
      [] x.k = "ninf" -> PInf
      [] OTHER -> NaN

XAdd(a, b) ==
    IF IsNaN(a) \/ IsNaN(b) THEN NaN
    ELSE IF IsFin(a) /\ IsFin(b) THEN Fin(QAdd(a.v, b.v))
    ELSE IF IsFin(a) THEN b
    ELSE IF IsFin(b) THEN a
    ELSE IF a.k = b.k THEN a ELSE NaN

XSub(a, b) == XAdd(a, XNeg(b))

XMul(a, b) ==
    IF IsNaN(a) \/ IsNaN(b) THEN NaN
    ELSE IF IsFin(a) /\ IsFin(b) THEN Fin(QMul(a.v, b.v))
    ELSE IF XSign(a) * XSign(b) = 0 THEN NaN
    ELSE XOfSign(XSign(a) * XSign(b))

\* IEEE division: x/0 is an infinity of the sign of x, 0/0 and inf/inf are NaN.
XDiv(a, b) ==
    IF IsNaN(a) \/ IsNaN(b) THEN NaN
    ELSE IF IsFin(b) /\ b.v[1] = 0
         THEN IF XSign(a) = 0 THEN NaN ELSE XOfSign(XSign(a))
    ELSE IF IsFin(a) /\ IsFin(b) THEN Fin(QDiv(a.v, b.v))
    ELSE IF IsFin(a) THEN XInt(0)
    ELSE IF IsFin(b) THEN XOfSign(XSign(a) * XSign(b))
    ELSE NaN

\* Order of two values neither of which is NaN.
XLt(a, b) ==
    IF IsFin(a) /\ IsFin(b) THEN QLt(a.v, b.v)
    ELSE IF a.k = b.k THEN FALSE
    ELSE a.k = "ninf" \/ b.k = "pinf"

XLe(a, b) == a = b \/ XLt(a, b)

RECURSIVE XPowNat(_, _)
XPowNat(x, e) == IF e = 0 THEN XInt(1) ELSE XMul(x, XPowNat(x, e - 1))

\* float ** int: x ** 0 is 1, a negative exponent is the reciprocal power.
XPow(x, e) == IF e >= 0 THEN XPowNat(x, e) ELSE XDiv(XInt(1), XPowNat(x, -e))

RECURSIVE XSumTo(_, _)
XSumTo(s, i) == IF i = 0 THEN XInt(0) ELSE XAdd(XSumTo(s, i - 1), s[i])

\* The sum of a sequence of values, left to right.
XSum(s) == XSumTo(s, Len(s))

(* ------------------------ square roots (surds) ------------------------ *)
\* [k, sg, sq] is the number sg * sqrt(sq), with sq >= 0 and sg its sign.
Surd(sg, sq) == [k |-> "fin", sg |-> sg, sq |-> sq]

SNaN == [k |-> "nan", sg |-> 0, sq |-> <<0, 1>>]

SPInf == [k |-> "pinf", sg |-> 1, sq |-> <<0, 1>>]

SNInf == [k |-> "ninf", sg |-> -1, sq |-> <<0, 1>>]

SOfSign(s) == IF s > 0 THEN SPInf ELSE SNInf

\* A float64 value as a surd.
SOfX(x) ==
    CASE x.k = "fin" -> Surd(Sign(x.v[1]), QMul(x.v, x.v))
      [] x.k = "pinf" -> SPInf
      [] x.k = "ninf" -> SNInf
      [] OTHER -> SNaN

\* sqrt(x): NaN for a negative x.
Sqrt(x) ==
    CASE x.k = "fin" -> IF x.v[1] < 0 THEN SNaN ELSE Surd(Sign(x.v[1]), x.v)
      [] x.k = "pinf" -> SPInf
      [] OTHER -> SNaN

SMul(a, b) ==
    IF a.k = "nan" \/ b.k = "nan" THEN SNaN
    ELSE IF a.k = "fin" /\ b.k = "fin" THEN Surd(a.sg * b.sg, QMul(a.sq, b.sq))
    ELSE IF a.sg * b.sg = 0 THEN SNaN
    ELSE SOfSign(a.sg * b.sg)

SDiv(a, b) ==
    IF a.k = "nan" \/ b.k = "nan" THEN SNaN
    ELSE IF b.k = "fin" /\ b.sg = 0
         THEN IF a.sg = 0 THEN SNaN ELSE SOfSign(a.sg)
    ELSE IF a.k = "fin" /\ b.k = "fin" THEN Surd(a.sg * b.sg, QDiv(a.sq, b.sq))
    ELSE IF a.k = "fin" THEN Surd(0, <<0, 1>>)
    ELSE IF b.k = "fin" THEN SOfSign(a.sg * b.sg)
    ELSE SNaN

\* Order of two surds neither of which is NaN.
SLt(a, b) ==
    IF a.k = "fin" /\ b.k = "fin"
    THEN QLt(<<a.sg * a.sq[1], a.sq[2]>>, <<b.sg * b.sq[1], b.sq[2]>>)
    ELSE IF a.k = b.k THEN FALSE
    ELSE a.k = "ninf" \/ b.k = "pinf"

\* np.min of two values: NaN when either is NaN.
SMin(a, b) ==
    IF a.k = "nan" \/ b.k = "nan" THEN SNaN ELSE IF SLt(b, a) THEN b ELSE a

XMin(a, b) ==
    IF IsNaN(a) \/ IsNaN(b) THEN NaN ELSE IF XLt(b, a) THEN b ELSE a

(* ------------------------ the normal CDF ------------------------------ *)
\* Denominator of the CDF table's values.
CdfRes == 2 * CdfScale

\* The tables scipy's norm.cdf can return on the points P: values in [0, 1],
\* non-decreasing, at most 1/2 left of 0 and at least 1/2 right of it.
CdfTables(P) ==
    {t \in [P -> 0 .. CdfRes] :
        /\ \A x, y \in P : QLe(x, y) => t[x] <= t[y]
        /\ \A x \in P : /\ QLe(x, QInt(0)) => t[x] <= CdfScale
                        /\ QLe(QInt(0), x) => t[x] >= CdfScale}

\* standard_normal.cdf(x) for a point x of the table t.
Cdf(t, x) == Fin(Q(t[x], CdfRes))

(* --------------------------- calculate_d2 ----------------------------- *)
\* np.linspace(-20.0, 20.0, num, retstep=True): the i-th point and the step.
Linspace(i) ==
    Q(GridStart * (NumGrid - 1) + (i - 1) * (GridStop - GridStart), NumGrid - 1)

Dx == Q(GridStop - GridStart, NumGrid - 1)

approx_x == [i \in 1 .. NumGrid |-> Linspace(i)]

GridPoints == {approx_x[i] : i \in 1 .. NumGrid}

\* The CDF tables on the grid; strictly between 0 and 1 somewhere inside it.
GridTables == {t \in CdfTables(GridPoints) : \E x \in GridPoints : 0 < t[x] /\ t[x] < CdfRes}

\* The grid tables with the symmetry of the normal CDF: cdf(-x) = 1 - cdf(x).
SymmetricGridTables ==
    {t \in GridTables : \A x \in GridPoints : t[x] + t[QNeg(x)] = CdfRes}

\* Mutants of the integrand: the last term added, and the whole sign flipped.
IntegrandLastAdded(c, e) == XAdd(XSub(XInt(1), XPow(XSub(XInt(1), c), e)), XPow(c, e))

IntegrandNegated(c, e) == XSub(XAdd(XPow(XSub(XInt(1), c), e), XPow(c, e)), XInt(1))

\* 1.0 - (1.0 - cdf(x)) ** n - cdf(x) ** n
Integrand(c, e) == XSub(XSub(XInt(1), XPow(XSub(XInt(1), c), e)), XPow(c, e))

SampleVals(t, e) == [i \in 1 .. NumGrid |-> Integrand(Cdf(t, approx_x[i]), e)]

\* Mutant of the trapezoidal rule: the halving left out.
TrapzNotHalved(y, dx) ==
    XSum([i \in 1 .. Len(y) - 1 |-> XMul(Fin(dx), XAdd(y[i + 1], y[i]))])

\* np.trapz(y, dx=dx): (dx * (y[1:] + y[:-1]) / 2.0).sum()
Trapz(y, dx) ==
    XSum([i \in 1 .. Len(y) - 1 |->
            XDiv(XMul(Fin(dx), XAdd(y[i + 1], y[i])), XInt(2))])

CalculateD2(e, t) == Trapz(SampleVals(t, e), Dx)

(* ------------------------- calculate_process -------------------------- *)
\* The series as float64 values.
Values(s) == [i \in 1 .. Len(s) |-> XInt(s[i])]

\* Series.mean(): NaN for an empty series.
Mean(s) == IF Len(s) = 0 THEN NaN ELSE XDiv(XSum(Values(s)), XInt(Len(s)))

\* Mutant: the squares are not taken about the mean.
VarianceUncentred(s) ==
    IF Len(s) < 2 THEN NaN
    ELSE XDiv(XSum([i \in 1 .. Len(s) |-> XMul(XInt(s[i]), XInt(s[i]))]),
              XInt(Len(s) - 1))

\* Series.std(): the sample standard deviation (ddof = 1), NaN below 2 values.
Variance(s) ==
    IF Len(s) < 2 THEN NaN
    ELSE LET avg == Mean(s)
             sqr == [i \in 1 .. Len(s) |->
                        XMul(XSub(avg, XInt(s[i])), XSub(avg, XInt(s[i])))]
         IN  XDiv(XSum(sqr), XInt(Len(s) - 1))

Std(s) == Sqrt(Variance(s))

RECURSIVE MaxOf(_, _, _)
MaxOf(s, lo, hi) ==
    IF lo = hi THEN s[lo]
    ELSE LET m == MaxOf(s, lo + 1, hi) IN IF s[lo] > m THEN s[lo] ELSE m

RECURSIVE MinOf(_, _, _)
MinOf(s, lo, hi) ==
    IF lo = hi THEN s[lo]
    ELSE LET m == MinOf(s, lo + 1, hi) IN IF s[lo] < m THEN s[lo] ELSE m

\* Mutant: the last entry instead of the maximum.
SeriesMaxLast(s) == IF Len(s) = 0 THEN NaN ELSE XInt(s[Len(s)])

\* Series.max() and Series.min(): NaN for an empty series.
SeriesMax(s) == IF Len(s) = 0 THEN NaN ELSE XInt(MaxOf(s, 1, Len(s)))

SeriesMin(s) == IF Len(s) = 0 THEN NaN ELSE XInt(MinOf(s, 1, Len(s)))

\* Mutant: the window holds one sample too many.
RollingMaxOffByOne(s, w) ==
    [i \in 1 .. Len(s) |->
        IF i < w THEN NaN ELSE XInt(MaxOf(s, IF i > w THEN i - w ELSE 1, i))]

\* Mutant: partial windows count (min_periods = 1).
RollingMinPartial(s, w) ==
    [i \in 1 .. Len(s) |-> XInt(MinOf(s, IF i > w THEN i - w + 1 ELSE 1, i))]

\* samples.rolling(w).max(): position i holds the maximum of the w samples
\* ending at i, and NaN while fewer than w samples have been seen.
RollingMax(s, w) ==
    [i \in 1 .. Len(s) |-> IF i < w THEN NaN ELSE XInt(MaxOf(s, i - w + 1, i))]

RollingMin(s, w) ==
    [i \in 1 .. Len(s) |-> IF i < w THEN NaN ELSE XInt(MinOf(s, i - w + 1, i))]

\* Elementwise difference and quotient of series on the same index.
SeriesSub(a, b) == [i \in 1 .. Len(a) |-> XSub(a[i], b[i])]

SeriesDiv(a, d) == [i \in 1 .. Len(a) |-> XDiv(a[i], d)]

\* Mutant: the mean of no values is 0.
NanMeanZeroEmpty(a) ==
    LET kept == SelectSeq(a, LAMBDA x : ~IsNaN(x))
    IN  IF Len(kept) = 0 THEN XInt(0) ELSE XDiv(XSum(kept), XInt(Len(kept)))

\* Series.mean() of float values: NaN entries are skipped, NaN if none is left.
NanMean(a) ==
    LET kept == SelectSeq(a, LAMBDA x : ~IsNaN(x))
    IN  IF Len(kept) = 0 THEN NaN ELSE XDiv(XSum(kept), XInt(Len(kept)))

StdWithin(Rbar, d) == NanMean(SeriesDiv(Rbar, d))

Ppk(lsl, usl, mu, sd) ==
    SMin(SDiv(SOfX(XSub(XInt(usl), mu)), SMul(SOfX(XInt(3)), sd)),
         SDiv(SOfX(XSub(mu, XInt(lsl))), SMul(SOfX(XInt(3)), sd)))

\* Mutant: the lower side is left out.
CpkUpperOnly(lsl, usl, mu, sw) == XDiv(XSub(XInt(usl), mu), XMul(XInt(3), sw))

Cpk(lsl, usl, mu, sw) ==
    XMin(XDiv(XSub(XInt(usl), mu), XMul(XInt(3), sw)),
         XDiv(XSub(mu, XInt(lsl)), XMul(XInt(3), sw)))

\* The locals of calculate_process after line 42.
Locals(s, w, t) ==
    LET rmax == RollingMax(s, w)
        rmin == RollingMin(s, w)
        Rbar == SeriesSub(rmax, rmin)
        d2w == CalculateD2(w, t)
    IN  [mu |-> Mean(s), std |-> Std(s), rmax |-> rmax, rmin |-> rmin,
         Rbar |-> Rbar, d2w |-> d2w, std_within |-> StdWithin(Rbar, d2w)]

\* The record calculate_process returns.
CalculateProcess(s, lsl, usl, l) ==
    [sample_size |-> Len(s),
     mean |-> l.mu,
     std |-> l.std,
     std_within |-> l.std_within,
     ppk |-> Ppk(lsl, usl, l.mu, l.std),
     cpk |-> Cpk(lsl, usl, l.mu, l.std_within),
     min |-> SeriesMin(s),
     max |-> SeriesMax(s)]

(* ------------------------- calculate_p_value -------------------------- *)
\* The standardised point (x - loc) / scale of a sample, for scale > 0.
ZPoint(x, m, sd) == Q(x - m, sd)

\* The points at which the call evaluates the standard normal CDF.
ZPoints(s, m, sd) ==
    IF sd > 0 THEN {ZPoint(s[i], m, sd) : i \in 1 .. Len(s)} ELSE {}

\* stats.norm(loc=m, scale=sd).cdf(x): NaN unless scale > 0.
NormalCdf(t, x, m, sd) == IF sd > 0 THEN Cdf(t, ZPoint(x, m, sd)) ELSE NaN

\* Python's min([a, b]): the first element unless the second is smaller.
PyMin(a, b) == IF IsNaN(a) \/ IsNaN(b) THEN a ELSE IF XLt(b, a) THEN b ELSE a

\* Mutant: the larger tail instead of the smaller.
TwoSidedMax(c) == XMul(XInt(-2), PyMin(XNeg(XSub(XInt(1), c)), XNeg(c)))

\* 2. * min([1 - normal.cdf(_s), normal.cdf(_s)])
TwoSided(c) == XMul(XInt(2), PyMin(XSub(XInt(1), c), c))

PerSample(s, m, sd, t) ==
    [i \in 1 .. Len(s) |-> TwoSided(NormalCdf(t, s[i], m, sd))]

\* np.mean of a list: NaN for an empty list, NaN entries are not skipped.
NpMean(a) == IF Len(a) = 0 THEN NaN ELSE XDiv(XSum(a), XInt(Len(a)))

CalculatePValue(m, sd, s, t) == NpMean(PerSample(s, m, sd, t))

(* ------------------------------ state --------------------------------- *)
VARIABLES
    pc,         \* "call" before the function runs, "done" once it has returned
    cdf,        \* the library's CDF values at the points the call evaluates
    n,          \* calculate_d2: the argument
    d2,         \* calculate_d2: the value returned
    samples,    \* calculate_process: the sample series
    LSL,        \* calculate_process: lower spec limit
    USL,        \* calculate_process: upper spec limit
    window,     \* calculate_process: rolling window size
    loc,        \* calculate_process: its locals (mu, std, rolling series, std_within)
    rec,        \* calculate_process: the record returned
    mean,       \* calculate_p_value: mean of the fitted normal
    std,        \* calculate_p_value: standard deviation of the fitted normal
    pvals,      \* calculate_p_value: the per-sample values
    p_value     \* calculate_p_value: the value returned

vars == <<pc, cdf, n, d2, samples, LSL, USL, window, loc, rec, mean, std, pvals, p_value>>

\* Values of the variables a call does not use.
NoLocals ==
    [mu |-> NaN, std |-> SNaN, rmax |-> <<>>, rmin |-> <<>>, Rbar |-> <<>>,
     d2w |-> NaN, std_within |-> NaN]

NoRecord ==
    [sample_size |-> 0, mean |-> NaN, std |-> SNaN, std_within |-> NaN,
     ppk |-> SNaN, cpk |-> NaN, min |-> NaN, max |-> NaN]

ProcessIdle ==
    /\ samples = <<>>
    /\ LSL = 0
    /\ USL = 0
    /\ window = 1
    /\ loc = NoLocals
    /\ rec = NoRecord

D2Idle == n = 1 /\ d2 = NaN

PValueIdle == mean = 0 /\ std = 1 /\ pvals = <<>> /\ p_value = NaN

(* --------------------- specification: calculate_d2 -------------------- *)
InitD2 ==
    /\ pc = "call"
    /\ cdf \in GridTables
    /\ n \in -NegN .. MaxN
    /\ d2 = NaN
    /\ ProcessIdle
    /\ PValueIdle

D2Call ==
    /\ pc = "call"
    /\ d2' = CalculateD2(n, cdf)
    /\ pc' = "done"
    /\ UNCHANGED <<cdf, n, samples, LSL, USL, window, loc, rec, mean, std, pvals, p_value>>

NextD2 == D2Call

SpecD2 == InitD2 /\ [][NextD2]_vars

(* ------------------ specification: calculate_process ------------------ *)
\* Every series over S of length at most m.
RECURSIVE SeqsUpTo(_, _)
SeqsUpTo(S, m) ==
    IF m = 0 THEN {<<>>}
    ELSE LET shorter == SeqsUpTo(S, m - 1)
         IN  shorter \cup {Append(s, x) : s \in {r \in shorter : Len(r) = m - 1}, x \in S}

\* The series 1, 2, ..., 8.
Ramp == <<1, 2, 3, 4, 5, 6, 7, 8>>

\* The values the bounded series are drawn from.
SampleValues == {0, 1, 2}

SampleSeries == SeqsUpTo(SampleValues, MaxLen) \cup {Ramp}

\* Window sizes: from 1 to one more than the longest bounded series.
MaxWin == MaxLen + 1

InitProcess ==
    /\ pc = "call"
    /\ cdf \in SymmetricGridTables
    /\ samples \in SampleSeries
    /\ LSL \in {0, 1}
    /\ USL \in {1, 2}
    /\ window \in 1 .. MaxWin
    /\ loc = NoLocals
    /\ rec = NoRecord
    /\ D2Idle
    /\ PValueIdle

Run(s) ==
    LET l == Locals(s, window, cdf)
    IN  /\ samples' = s
        /\ loc' = l
        /\ rec' = CalculateProcess(s, LSL, USL, l)
        /\ pc' = "done"
        /\ UNCHANGED <<cdf, n, d2, LSL, USL, window, mean, std, pvals, p_value>>

ProcessCall == pc = "call" /\ Run(samples)

\* The series with the entries at i and i + 1 exchanged.
Swap(s, i) ==
    [j \in 1 .. Len(s) |-> IF j = i THEN s[i + 1] ELSE IF j = i + 1 THEN s[i] ELSE s[j]]

\* The caller calls calculate_process again with two neighbours exchanged
\* (for the series of bounded length).
Reorder ==
    /\ pc = "done"
    /\ Len(samples) <= MaxLen
    /\ \E i \in 1 .. Len(samples) - 1 :
          /\ samples[i] # samples[i + 1]
          /\ Run(Swap(samples, i))

NextProcess == ProcessCall \/ Reorder

SpecProcess == InitProcess /\ [][NextProcess]_vars

(* ------------------ specification: calculate_p_value ------------------ *)
InitPValue ==
    /\ pc = "call"
    /\ mean \in SampleValues
    /\ std \in 0 .. 2
    /\ samples \in SeqsUpTo(SampleValues, MaxLen)
    /\ cdf \in CdfTables(ZPoints(samples, mean, std))
    /\ pvals = <<>>
    /\ p_value = NaN
    /\ LSL = 0
    /\ USL = 0
    /\ window = 1
    /\ loc = NoLocals
    /\ rec = NoRecord
    /\ D2Idle

PValueCall ==
    /\ pc = "call"
    /\ pvals' = PerSample(samples, mean, std, cdf)
    /\ p_value' = CalculatePValue(mean, std, samples, cdf)
    /\ pc' = "done"
    /\ UNCHANGED <<cdf, n, d2, samples, LSL, USL, window, loc, rec, mean, std>>

NextPValue == PValueCall

SpecPValue == InitPValue /\ [][NextPValue]_vars

(* =========================== calculate_d2 ============================= *)
\* The integrand at grid point i for exponent e, from the state's CDF table.
IntegrandAt(i, e) == SampleVals(cdf, e)[i]

NonNeg(x) == IsFin(x) /\ x.v[1] >= 0

C7_D2Monotone ==
    (pc = "done" /\ n >= 1) =>
        \A m \in 1 .. n :
            /\ XLe(CalculateD2(m, cdf), d2)
            /\ \A i \in 1 .. NumGrid : XLe(IntegrandAt(i, m), IntegrandAt(i, n))

C7_Witness ==
    /\ pc = "done"
    /\ n >= 3
    /\ XLt(CalculateD2(1, cdf), CalculateD2(2, cdf))
    /\ XLt(CalculateD2(2, cdf), d2)

\* C10: for n < 1 calculate_d2 returns without an error a value below 0,
\* outside the documented range; for n = 0 the integrand is -1 at every grid
\* point and the value is minus the width of the interval, -40.
C10_D2InvalidN ==
    (pc = "done" /\ n < 1) =>
        /\ ~IsNaN(d2)
        /\ XLt(d2, XInt(0))
        /\ n = 0 => /\ \A i \in 1 .. NumGrid : IntegrandAt(i, 0) = XInt(-1)
                    /\ d2 = XInt(-40)

C10_Witness == pc = "done" /\ n = 0 /\ d2 = XInt(-40)

(* ========================= calculate_process ========================== *)
\* The samples of the window of size w that ends at position i.
WindowAt(i, w) == {samples[j] : j \in (i - w + 1) .. i}

SetMax(S) == CHOOSE x \in S : \A y \in S : y <= x

SetMin(S) == CHOOSE x \in S : \A y \in S : x <= y

\* max - min of the window that ends at position i.
RangeAt(i, w) == SetMax(WindowAt(i, w)) - SetMin(WindowAt(i, w))

RECURSIVE RangeSum(_, _)
RangeSum(i, w) == IF i < w THEN 0 ELSE RangeAt(i, w) + RangeSum(i - 1, w)

\* The positions at which a series holds a value.
Defined(a) == {i \in 1 .. Len(a) : ~IsNaN(a[i])}

\* C1: the rolling range R has L-w+1 defined entries when L >= w and none when
\* L < w; each is max - min of its w consecutive samples; the mean taken over
\* R uses the defined entries only; for samples 1..8 and w = 4 there are 5
\* windows, every range is 3 and mean(R) = 3.
C1_RollingRange ==
    pc = "done" =>
        LET L == Len(samples)
            w == window
        IN  /\ Len(loc.Rbar) = L
            /\ Cardinality(Defined(loc.Rbar)) = IF L >= w THEN L - w + 1 ELSE 0
            /\ \A i \in Defined(loc.Rbar) : i >= w /\ loc.Rbar[i] = XInt(RangeAt(i, w))
            /\ (L >= w /\ loc.d2w # XInt(0)) =>
                   XMul(loc.std_within, loc.d2w) = Fin(Q(RangeSum(L, w), L - w + 1))
            /\ (samples = Ramp /\ w = 4) =>
                   /\ Defined(loc.Rbar) = 4 .. 8
                   /\ \A i \in 4 .. 8 : loc.Rbar[i] = XInt(3)
                   /\ XMul(loc.std_within, loc.d2w) = XInt(3)

C1_Witness ==
    /\ pc = "done"
    /\ samples = Ramp
    /\ window = 4
    /\ loc.std_within = XDiv(XInt(3), CalculateD2(4, cdf))

IsPos(x) == IsFin(x) /\ x.v[1] > 0

\* C2: ppk = min((USL-mu)/(3 std), (mu-LSL)/(3 std)) and cpk is the same with
\* std_within, mu and std being those of the whole series; for std > 0 and
\* std_within > 0 each index is negative exactly when mu is outside
\* [LSL, USL], and cpk * std_within = ppk * std.
C2_Indices ==
    pc = "done" =>
        LET mu == Mean(samples)
            sd == Std(samples)
            sw == rec.std_within
            outside == XLt(mu, XInt(LSL)) \/ XLt(XInt(USL), mu)
        IN  /\ rec.mean = mu
            /\ rec.std = sd
            /\ rec.ppk = SMin(SDiv(SOfX(XSub(XInt(USL), mu)), SMul(SOfX(XInt(3)), sd)),
                              SDiv(SOfX(XSub(mu, XInt(LSL))), SMul(SOfX(XInt(3)), sd)))
            /\ rec.cpk = XMin(XDiv(XSub(XInt(USL), mu), XMul(XInt(3), sw)),
                              XDiv(XSub(mu, XInt(LSL)), XMul(XInt(3), sw)))
            /\ (sd.k = "fin" /\ sd.sg > 0 /\ IsPos(sw)) =>
                   /\ (rec.ppk.sg < 0) <=> outside
                   /\ (IsFin(rec.cpk) /\ rec.cpk.v[1] < 0) <=> outside
                   /\ SOfX(XMul(rec.cpk, sw)) = SMul(rec.ppk, sd)

C2_Witness ==
    /\ pc = "done"
    /\ rec.std.k = "fin" /\ rec.std.sg > 0
    /\ IsPos(rec.std_within)
    /\ XLt(XInt(USL), rec.mean)
    /\ rec.ppk.sg < 0
    /\ IsFin(rec.cpk) /\ rec.cpk.v[1] < 0

\* The series is non-empty and all its values equal v.
Constant(v) == Len(samples) >= 1 /\ \A i \in 1 .. Len(samples) : samples[i] = v

SZero == Surd(0, <<0, 1>>)

C4_OrderInsensitive ==
    [][(pc = "done" /\ pc' = "done") =>
          /\ rec'.sample_size = rec.sample_size
          /\ rec'.mean = rec.mean
          /\ rec'.std = rec.std
          /\ rec'.min = rec.min
          /\ rec'.max = rec.max
          /\ rec'.ppk = rec.ppk]_vars

\* A result whose std_within and cpk change when two neighbours are exchanged.
C4_Witness ==
    /\ pc = "done"
    /\ \E i \in 1 .. Len(samples) - 1 :
          LET l == Locals(Swap(samples, i), window, cdf)
              r == CalculateProcess(Swap(samples, i), LSL, USL, l)
          IN  /\ IsFin(rec.std_within) /\ IsFin(r.std_within)
              /\ r.std_within # rec.std_within
              /\ r.cpk # rec.cpk
              /\ r.mean = rec.mean /\ r.std = rec.std

\* C5: with window > number of samples there is no complete window:
\* std_within and cpk are NaN, and sample size, mean, std, ppk, min and max
\* are those of the full series.
C5_WindowTooLarge ==
    (pc = "done" /\ window > Len(samples)) =>
        /\ Defined(loc.Rbar) = {}
        /\ IsNaN(rec.std_within)
        /\ IsNaN(rec.cpk)
        /\ rec.sample_size = Len(samples)
        /\ rec.mean = Mean(samples)
        /\ rec.std = Std(samples)
        /\ rec.ppk = Ppk(LSL, USL, Mean(samples), Std(samples))
        /\ \A i \in 1 .. Len(samples) :
              /\ XLe(rec.min, XInt(samples[i]))
              /\ XLe(XInt(samples[i]), rec.max)
        /\ Len(samples) >= 1 =>
              \E i, j \in 1 .. Len(samples) :
                  rec.min = XInt(samples[i]) /\ rec.max = XInt(samples[j])

C5_Witness ==
    /\ pc = "done"
    /\ window > Len(samples)
    /\ Len(samples) >= 2
    /\ IsNaN(rec.std_within) /\ IsNaN(rec.cpk)
    /\ rec.ppk.k = "fin" /\ rec.ppk.sg > 0

\* C9: rolling max and rolling min are defined on the same positions (not on
\* the first window-1, on all the others), so that for window <= length and
\* d2(window) # 0 the value the code computes, the mean over the defined
\* positions of (max - min)/d2(window), is mean(R)/d2(window).
C9_AlignedMean ==
    pc = "done" =>
        /\ Len(loc.rmax) = Len(samples) /\ Len(loc.rmin) = Len(samples)
        /\ \A i \in 1 .. Len(samples) :
              /\ IsNaN(loc.rmax[i]) <=> i < window
              /\ IsNaN(loc.rmin[i]) <=> i < window
              /\ i >= window =>
                    /\ loc.rmax[i] = XInt(SetMax(WindowAt(i, window)))
                    /\ loc.rmin[i] = XInt(SetMin(WindowAt(i, window)))
        /\ (window <= Len(samples) /\ loc.d2w # XInt(0)) =>
              rec.std_within =
                  XDiv(Fin(Q(RangeSum(Len(samples), window), Len(samples) - window + 1)),
                       loc.d2w)

C9_Witness ==
    /\ pc = "done"
    /\ 2 <= window /\ window < Len(samples)
    /\ loc.d2w # XInt(0)
    /\ IsPos(rec.std_within)
    /\ \E i, j \in Defined(loc.Rbar) : loc.Rbar[i] # loc.Rbar[j]

(* ========================= calculate_p_value ========================== *)
InUnit(x) == IsFin(x) /\ x.v[1] >= 0 /\ x.v[1] <= x.v[2]

\* The fitted normal's CDF at sample i, read from the state's table.
F(i) == Fin(Q(cdf[Q(samples[i] - mean, std)], CdfRes))

\* Sample j is on the same side of the mean as sample i and at least as far.
Farther(i, j) ==
    \/ mean <= samples[i] /\ samples[i] <= samples[j]
    \/ samples[j] <= samples[i] /\ samples[i] <= mean

\* C8: for a non-empty series and std > 0 the result is the arithmetic mean
\* of 2*min(1 - F(s), F(s)) over the samples; every per-sample value and the
\* result lie in [0, 1]; the result is 1 when every sample equals the mean;
\* a sample's value never increases as the sample moves away from the mean.
C8_PValue ==
    (pc = "done" /\ Len(samples) >= 1 /\ std > 0) =>
        LET L == Len(samples)
        IN  /\ Len(pvals) = L
            /\ \A i \in 1 .. L :
                  /\ pvals[i] = XMul(XInt(2), XMin(XSub(XInt(1), F(i)), F(i)))
                  /\ InUnit(pvals[i])
            /\ XMul(p_value, XInt(L)) = XSum(pvals)
            /\ InUnit(p_value)
            /\ (\A i \in 1 .. L : samples[i] = mean) => p_value = XInt(1)
            /\ \A i, j \in 1 .. L : Farther(i, j) => XLe(pvals[j], pvals[i])

C8_Witness ==
    /\ pc = "done"
    /\ std > 0
    /\ \E i, j, k \in 1 .. Len(samples) :
          /\ samples[i] < mean /\ samples[j] = mean /\ samples[k] > mean
          /\ XLt(pvals[i], pvals[j]) /\ XLt(pvals[k], pvals[j])
    /\ XLt(XInt(0), p_value) /\ XLt(p_value, XInt(1))

=============================================================================
